---- MODULE Spec2Model ----
(***************************************************************************)
(* A model of the live-reload pipeline of serve: the debouncer, the        *)
(* broadcaster, the watcher goroutine of main, the streaming handler       *)
(* liveReloadHandler with withRequestCancel around it, and the response    *)
(* rewriting middleware withInjectReload over bufferedResponseWriter.      *)
(*                                                                         *)
(* Time is counted in ticks of 50 ms, so the debounce delay of 100 ms is   *)
(* 2 ticks.  A timer never fires before its deadline and may fire late.    *)
(***************************************************************************)
EXTENDS Integers, Sequences, FiniteSets, TLC

\* ------------------------------------------------------------------ bounds
MaxTime == 5        \* the clock stops here
MaxCalls == 3       \* debouncer.Call invocations (timers created) in one run
MaxNotify == 1      \* notify() calls in a run of the broadcaster alone
NumHandlers == 2    \* streaming connections in a run of the broadcaster alone
PipeHandlers == 1   \* streaming connections in a run of the whole pipeline
MaxRounds == 2      \* notify() calls made one after the other
NumCallers == 2     \* goroutines calling debouncer.Call at the same time

\* ------------------------------------------------------- program constants
after == 2          \* newDebouncer(100 * time.Millisecond), in ticks of 50 ms

Max(a, b) == IF a >= b THEN a ELSE b
Handlers == 1..Max(NumHandlers, PipeHandlers)
NotifyIds == 1..Max(MaxCalls, Max(MaxNotify, MaxRounds))
Keys == {"reload", "other"}
Callers == 1..NumCallers
NoTimer == 0

\* fsnotify.Op values are bit sets; the watcher tests ev.Op & trackedOp.
trackedOpWithChmod == {"Create", "Write", "Remove", "Rename", "Chmod"}
trackedOp == {"Create", "Write", "Remove", "Rename"}
Ops == {{"Write"}, {"Chmod"}, {"Create", "Chmod"}}
NoEvent == {}
\* What the loop keeps of a value received from watcher.Errors: it was logged.
LoggedError == {"Error"}
\* The events in a run of the whole pipeline are writes.
PipeOps == {{"Write"}}

\* ------------------------------------------------------------ the served tree
\* A path is the sequence of its names below the root; the root is "." in
\* rootFS.  A tree is a set of entries [path, dir]; the parent of every entry
\* is the root or a directory of the tree.
MaxEntries == 3     \* entries below the root of the served directory
ignoredDirs == {".git", ".idea", "node_modules"}
Names == {"src", ".git", "node_modules"}
Root == <<>>
Name(p) == IF p = Root THEN "." ELSE p[Len(p)]
Dirs(t) == {e.path : e \in {x \in t : x.dir}}
PathsOf(t) == {e.path : e \in t}
RECURSIVE Trees(_)
Trees(n) ==
    IF n = 0 THEN {{}}
    ELSE LET smaller == Trees(n - 1)
         IN  smaller \cup
             UNION {{t \cup {[path |-> q, dir |-> k]} :
                        q \in {Append(d, nm) : d \in Dirs(t) \cup {Root}, nm \in Names} \ PathsOf(t),
                        k \in BOOLEAN} : t \in smaller}

\* d.IsDir() and fs.ReadDir for the entry at p
IsDir(t, p) == p = Root \/ p \in Dirs(t)
ReadDir(t, p) == {q \in PathsOf(t) : Len(q) = Len(p) + 1 /\ SubSeq(q, 1, Len(p)) = p}

\* The callback main passes to fs.WalkDir: nil for what is not a directory,
\* fs.SkipDir for an ignored directory name, else watcher.Add(path).
WalkFn(t, p) ==
    IF ~IsDir(t, p) THEN "nil"
    ELSE IF Name(p) \in ignoredDirs THEN "SkipDir"
    ELSE "Add"

\* fs.WalkDir: the entries it goes on to below p once the callback returned res.
DescendAlways(t, p, res) == IF IsDir(t, p) THEN ReadDir(t, p) ELSE {}
Descend(t, p, res) == IF IsDir(t, p) /\ res # "SkipDir" THEN ReadDir(t, p) ELSE {}

\* fs.WalkDir(rootFS, p, fn): the paths handed to watcher.Add.
RECURSIVE WalkDir(_, _)
WalkDir(t, p) ==
    LET res == WalkFn(t, p)
    IN  (IF res = "Add" THEN {p} ELSE {}) \cup UNION {WalkDir(t, q) : q \in Descend(t, p, res)}

\* ------------------------------------------------------ bytes and headers
\* Strings are sequences of one-character strings.
closeBodyTag == <<"<", "/", "b", "o", "d", "y", ">">>
HTMLContentType == <<"t", "e", "x", "t", "/", "h", "t", "m", "l">>
StatusOK == 200
Statuses == {206, 404}
ContentTypes == {<<>>,
                 <<"t", "e", "x", "t", "/", "h", "t", "m", "l", ";", " ", "c", "h", "a", "r", "s", "e", "t", "=", "u", "t", "f", "-", "8">>,
                 <<"t", "e", "x", "t", "/", "c", "s", "s", ";", " ", "c", "h", "a", "r", "s", "e", "t", "=", "u", "t", "f", "-", "8">>}
RangeValues == {<<>>, <<"b", "y", "t", "e", "s", "=", "0", "-", "1">>}
Injections == {<<"<", "s", ">">>, <<"<", "j", "s", ">">>}
Pieces == {<<"h", "i">>, closeBodyTag, <<"<", "/", "b", "o">>, <<"d", "y", ">">>}
MaxWrites == 2      \* Write calls the wrapped handler makes for one response
Plans == UNION {[1..n -> Pieces] : n \in 0..MaxWrites}
Malformed == <<"1", "x">>
StatusInternalServerError == 500
ConnectionClose == <<"c", "l", "o", "s", "e">>
PlainContentType == <<"t", "e", "x", "t", "/", "p", "l", "a", "i", "n", ";", " ", "c", "h", "a", "r", "s", "e", "t", "=", "u", "t", "f", "-", "8">>
\* http.StatusText(500) and the newline http.Error adds
ErrorText == <<"I", "n", "t", "e", "r", "n", "a", "l", " ", "S", "e", "r", "v", "e", "r", " ", "E", "r", "r", "o", "r", "\n">>
Digits == <<"0", "1", "2", "3", "4", "5", "6", "7", "8", "9">>

RECURSIVE Concat(_)
Concat(chunks) == IF chunks = <<>> THEN <<>> ELSE Head(chunks) \o Concat(Tail(chunks))

\* strings.Index(s, sub), counted from 1; 0 when sub does not occur in s.
HasAt(s, sub, i) == i + Len(sub) - 1 <= Len(s) /\ SubSeq(s, i, i + Len(sub) - 1) = sub
Index(s, sub) ==
    IF \E i \in 1..Len(s) : HasAt(s, sub, i)
    THEN CHOOSE i \in 1..Len(s) : HasAt(s, sub, i) /\ \A j \in 1..(i - 1) : ~HasAt(s, sub, j)
    ELSE 0
\* strings.Contains(s, sub)
Contains(s, sub) == Index(s, sub) # 0
\* strings.Count(s, sub) for a sub that cannot overlap itself
Count(s, sub) == Cardinality({i \in 1..Len(s) : HasAt(s, sub, i)})
\* strings.Replace(s, old, new, 1)
Replace1(s, old, new) ==
    LET i == Index(s, old)
    IN  IF i = 0 THEN s
        ELSE SubSeq(s, 1, i - 1) \o new \o SubSeq(s, i + Len(old), Len(s))

IsDigit(c) == \E d \in 1..10 : Digits[d] = c
DigitVal(c) == (CHOOSE d \in 1..10 : Digits[d] = c) - 1
RECURSIVE DigitsVal(_)
DigitsVal(s) ==
    IF s = <<>> THEN 0
    ELSE 10 * DigitsVal(SubSeq(s, 1, Len(s) - 1)) + DigitVal(s[Len(s)])
\* strconv.Atoi(s): [ok, n]
Atoi(s) ==
    LET signed == Len(s) > 0 /\ s[1] \in {"+", "-"}
        body == IF signed THEN Tail(s) ELSE s
    IN  IF body = <<>> \/ \E i \in 1..Len(body) : ~IsDigit(body[i])
        THEN [ok |-> FALSE, n |-> 0]
        ELSE [ok |-> TRUE,
              n |-> IF signed /\ s[1] = "-" THEN 0 - DigitsVal(body) ELSE DigitsVal(body)]
\* strconv.Itoa(n)
RECURSIVE Itoa(_)
Itoa(n) ==
    IF n < 0 THEN <<"-">> \o Itoa(0 - n)
    ELSE IF n < 10 THEN <<Digits[n + 1]>>
    ELSE Itoa(n \div 10) \o <<Digits[(n % 10) + 1]>>

VARIABLES
    now,          \* the clock, in ticks
    cancelled,    \* ctx of main is done (cancel() was called)
    exited,       \* main has returned: the process is gone
    pendingAtCancel, \* the timers pending and not yet due when cancel() was called
    wpc,          \* the watcher goroutine: "loop" or "done"
    watcherOpen,  \* the fsnotify watcher is not closed
    wlast,        \* the operation of the last event the loop received (NoEvent: none
                  \* yet), or LoggedError when the last thing it received was an error
    streamsOpen,  \* watcher.Events and watcher.Errors are not closed
    tree,         \* the served directory tree
    watched,      \* the paths registered with watcher.Add
    timers,       \* debouncer.timers: key -> index into afterFuncs (0: no entry)
    dmu,          \* debouncer.mu: the caller holding it (0: nobody)
    cpc,          \* the goroutine c calling debouncer.Call: pc
    ckey,         \* ... its key
    afterFuncs,   \* every timer time.AfterFunc created: [key, at, deadline, st, ranAt]
    npc,          \* the goroutine running notify() number i: pc
    nrem,         \* ... the channels its range loop has still to visit
    mu,           \* broadcaster.mu: [writer, readers]
    channels,     \* broadcaster.channels
    closed,       \* channels that were closed
    sendOnClosed, \* a send on a closed channel happened (a panic in Go)
    hpc,          \* the handler goroutine of connection h: pc
    hch,          \* ... its local ch (0 before subscribe)
    hsince,       \* ... how many Calls the debouncer had seen when it subscribed
    hexit,        \* ... why it left its loop
    reqDone,      \* ... its request context is done
    frames,       \* ... sourcechange frames written to the connection
    mpc,          \* one request through withInjectReload: where it is
    req,          \* ... the request: [range], and the injection snippet
    plan,         \* ... the chunks the wrapped handler has still to write
    out,          \* ... what the wrapped handler produced: [status, ct, cl, body]
    hdr,          \* ... the response header map: [ct, cl, conn]
    bw,           \* ... the bufferedResponseWriter: [buf, status]
    w,            \* ... the connection's writer: [status, hdr, body, commits], where
                  \*     commits counts the WriteHeader calls that reached it
    panicking,    \* ... the wrapped handler panicked and the panic is unwinding
    flushErr      \* ... the copy of the buffer to the client failed

tvars == <<now>>
mvars == <<cancelled, exited, pendingAtCancel>>
fvars == <<tree, watched>>
wvars == <<wpc, watcherOpen, wlast, streamsOpen, fvars>>
cvars == <<dmu, cpc, ckey>>
dvars == <<timers, afterFuncs>>
nvars == <<npc, nrem>>
bvars == <<mu, channels, closed, sendOnClosed>>
hvars == <<hpc, hch, hsince, hexit, reqDone, frames>>
rvars == <<mpc, req, plan, out, hdr, bw, w, panicking, flushErr>>
pvars == <<tvars, mvars, wvars, dvars, cvars, nvars, bvars, hvars>>

vars == <<tvars, mvars, wvars, dvars, cvars, nvars, bvars, hvars, cvars, rvars>>

\* Everything but the watcher goroutine's position and the tree it serves.
InitRest ==
    /\ now = 0
    /\ cancelled = FALSE
    /\ exited = FALSE
    /\ pendingAtCancel = {}
    /\ watcherOpen = TRUE
    /\ streamsOpen = TRUE
    /\ wlast = NoEvent
    /\ timers = [k \in Keys |-> NoTimer]
    /\ afterFuncs = <<>>
    /\ dmu = 0
    /\ cpc = [c \in Callers |-> "idle"]
    /\ ckey = [c \in Callers |-> "reload"]
    /\ npc = [i \in NotifyIds |-> "none"]
    /\ nrem = [i \in NotifyIds |-> {}]
    /\ mu = [writer |-> 0, readers |-> {}]
    /\ channels = {}
    /\ closed = {}
    /\ sendOnClosed = FALSE
    /\ hpc = [h \in Handlers |-> "idle"]
    /\ hch = [h \in Handlers |-> 0]
    /\ hsince = [h \in Handlers |-> 0]
    /\ hexit = [h \in Handlers |-> "none"]
    /\ reqDone = [h \in Handlers |-> FALSE]
    /\ frames = [h \in Handlers |-> 0]
    /\ mpc = "idle"
    /\ req = [range |-> <<>>, injection |-> <<>>]
    /\ plan = <<>>
    /\ out = [status |-> StatusOK, ct |-> <<>>, cl |-> <<>>, body |-> <<>>]
    /\ hdr = [ct |-> <<>>, cl |-> <<>>, conn |-> <<>>]
    /\ bw = [buf |-> <<>>, status |-> 0]
    /\ w = [status |-> 0, hdr |-> [ct |-> <<>>, cl |-> <<>>, conn |-> <<>>], body |-> <<>>,
            commits |-> 0]
    /\ panicking = FALSE
    /\ flushErr = FALSE

\* The watcher goroutine has walked a root without entries and is in its loop.
Init ==
    /\ InitRest
    /\ wpc = "loop"
    /\ tree = {}
    /\ watched = WalkDir({}, Root)

\* The watcher goroutine is about to walk some tree.
WalkInit ==
    /\ InitRest
    /\ wpc = "walk"
    /\ tree \in Trees(MaxEntries)
    /\ watched = {}

\* ------------------------------------------------------------------- clock
Tick ==
    /\ ~exited
    /\ now < MaxTime
    /\ now' = now + 1
    /\ UNCHANGED <<mvars, wvars, dvars, nvars, bvars, hvars, cvars, rvars>>

\* --------------------------------------------------------------- debouncer
\* timer.Stop(): a timer that has not fired yet never will; one that has is left.
StopTimerNoop(fs, i) == fs
StopTimer(fs, i) ==
    IF i # NoTimer /\ fs[i].st = "pending"
    THEN [fs EXCEPT ![i].st = "stopped"]
    ELSE fs

\* time.AfterFunc(d.after, f): a new timer due d.after from now.
Deadline(t) == t + after

\* timer, ok := d.timers[key]
TimerOfAnyKey(ts, key) ==
    IF \A k \in Keys : ts[k] = NoTimer THEN NoTimer
    ELSE CHOOSE i \in {ts[k] : k \in Keys} : \A k \in Keys : ts[k] <= i
TimerOf(ts, key) == ts[key]

\* A timer AfterFunc has just created for key.
NewTimer(key) ==
    [key |-> key, at |-> now, deadline |-> Deadline(now), st |-> "pending", ranAt |-> 0]

\* debouncer.Call(key, f), under d.mu: stop the key's timer, install a new one.
\* With one caller, as in main, the call is one step.
Call(key) ==
    /\ Len(afterFuncs) < MaxCalls
    /\ LET stopped == StopTimer(afterFuncs, TimerOf(timers, key))
       IN  /\ afterFuncs' = Append(stopped, NewTimer(key))
           /\ timers' = [timers EXCEPT ![key] = Len(afterFuncs) + 1]

\* debouncer.Call(key, f) made by several goroutines at once, step by step.
\* The call is made: the goroutine is at d.mu.Lock().  Of the goroutines not
\* in a call, the one with the lowest number makes the next call.
MutexFreeAlways == TRUE
MutexFree == dmu = 0
InCall == {c \in Callers : cpc[c] # "idle"}
CallEnter(c, key) ==
    /\ ~exited
    /\ cpc[c] = "idle"
    /\ \A b \in Callers : b < c => cpc[b] # "idle"
    /\ Len(afterFuncs) + Cardinality(InCall) < MaxCalls
    /\ cpc' = [cpc EXCEPT ![c] = "lock"]
    /\ ckey' = [ckey EXCEPT ![c] = key]
    /\ UNCHANGED <<dmu, tvars, mvars, wvars, dvars, nvars, bvars, hvars, rvars>>

\* d.mu.Lock() returns.
CallLock(c) ==
    /\ ~exited
    /\ cpc[c] = "lock"
    /\ MutexFree
    /\ dmu' = c
    /\ cpc' = [cpc EXCEPT ![c] = "stop"]
    /\ UNCHANGED <<ckey, tvars, mvars, wvars, dvars, nvars, bvars, hvars, rvars>>

\* if timer, ok := d.timers[key]; ok { timer.Stop() }
CallStop(c) ==
    /\ ~exited
    /\ cpc[c] = "stop"
    /\ afterFuncs' = StopTimer(afterFuncs, TimerOf(timers, ckey[c]))
    /\ cpc' = [cpc EXCEPT ![c] = "install"]
    /\ UNCHANGED <<timers, dmu, ckey, tvars, mvars, wvars, nvars, bvars, hvars, rvars>>

\* d.timers[key] = time.AfterFunc(d.after, f), the deferred d.mu.Unlock(), and
\* the call returns.
CallInstall(c) ==
    /\ ~exited
    /\ cpc[c] = "install"
    /\ afterFuncs' = Append(afterFuncs, NewTimer(ckey[c]))
    /\ timers' = [timers EXCEPT ![ckey[c]] = Len(afterFuncs) + 1]
    /\ dmu' = 0
    /\ cpc' = [cpc EXCEPT ![c] = "idle"]
    /\ ckey' = [ckey EXCEPT ![c] = "reload"]
    /\ UNCHANGED <<tvars, mvars, wvars, nvars, bvars, hvars, rvars>>

\* The runtime runs f, which is notify(), in its own goroutine once the timer is due.
TimerFire(i) ==
    /\ ~exited
    /\ i \in 1..Len(afterFuncs)
    /\ afterFuncs[i].st = "pending"
    /\ now >= afterFuncs[i].deadline
    /\ afterFuncs' = [afterFuncs EXCEPT ![i].st = "fired", ![i].ranAt = now]
    /\ npc' = [npc EXCEPT ![i] = "start"]
    /\ UNCHANGED <<tvars, mvars, wvars, timers, nrem, bvars, hvars, cvars, rvars>>

\* A call of reloadBroadcaster.notify() seen from the broadcaster alone; the
\* calls are numbered in the order in which they are made.
NotifyCall(i) ==
    /\ ~exited
    /\ i \in 1..MaxNotify
    /\ npc[i] = "none"
    /\ \A j \in NotifyIds : j < i => npc[j] # "none"
    /\ npc' = [npc EXCEPT ![i] = "start"]
    /\ UNCHANGED <<tvars, mvars, wvars, dvars, nrem, bvars, hvars, cvars, rvars>>

\* A call of notify() made when the one before it has returned.
NotifyRound(i) ==
    /\ ~exited
    /\ i \in 1..MaxRounds
    /\ npc[i] = "none"
    /\ \A j \in NotifyIds : j < i => npc[j] = "done"
    /\ npc' = [npc EXCEPT ![i] = "start"]
    /\ UNCHANGED <<tvars, mvars, wvars, dvars, nrem, bvars, hvars, cvars, rvars>>

\* ------------------------------------------------------------- broadcaster
\* delete(b.channels, ch)
DeleteAll(chs, ch) == {}
DeleteNothing(chs, ch) == chs
Delete(chs, ch) == chs \ {ch}

\* b.mu.Lock() succeeds when nobody holds the lock; b.mu.RLock() when no writer does.
LockFreeIgnoringReaders == mu.writer = 0
LockFree == mu.writer = 0 /\ mu.readers = {}
RLockFree == mu.writer = 0

\* The handler whose loop receives on ch is parked in its select.
Receiving(ch) == \E h \in Handlers : hch[h] = ch /\ hpc[h] = "select"

\* select { case ch <- struct{}{}: default: } on an unbuffered channel.
BlockingSend(ch) ==
    IF ch \in closed THEN "panic"
    ELSE IF Receiving(ch) THEN "sent"
    ELSE "block"
SelectSend(ch) ==
    IF ch \in closed THEN "panic"
    ELSE IF Receiving(ch) THEN "sent"
    ELSE "dropped"

\* notify(): b.mu.RLock()
NotifyRLock(i) ==
    /\ ~exited
    /\ npc[i] = "start"
    /\ RLockFree
    /\ mu' = [mu EXCEPT !.readers = @ \cup {i}]
    /\ npc' = [npc EXCEPT ![i] = "iter"]
    /\ nrem' = [nrem EXCEPT ![i] = channels]
    /\ UNCHANGED <<tvars, mvars, wvars, dvars, channels, closed, sendOnClosed, hvars, cvars, rvars>>

\* notify(): one iteration of the range loop; a send that succeeds wakes the
\* handler parked on ch, which goes on to write the frame.
NotifySend(i, ch) ==
    /\ ~exited
    /\ npc[i] = "iter"
    /\ ch \in nrem[i]
    /\ SelectSend(ch) # "block"
    /\ nrem' = [nrem EXCEPT ![i] = @ \ {ch}]
    /\ sendOnClosed' = (sendOnClosed \/ SelectSend(ch) = "panic")
    /\ hpc' = [h \in Handlers |->
                 IF SelectSend(ch) = "sent" /\ hch[h] = ch /\ hpc[h] = "select"
                 THEN "write" ELSE hpc[h]]
    /\ UNCHANGED <<tvars, mvars, wvars, dvars, npc, mu, channels, closed,
                   hch, hsince, hexit, reqDone, frames, cvars, rvars>>

\* notify(): the loop is over, the deferred b.mu.RUnlock() runs.
NotifyRUnlock(i) ==
    /\ ~exited
    /\ npc[i] = "iter"
    /\ nrem[i] = {}
    /\ mu' = [mu EXCEPT !.readers = @ \ {i}]
    /\ npc' = [npc EXCEPT ![i] = "done"]
    /\ UNCHANGED <<tvars, mvars, wvars, dvars, nrem, channels, closed,
                   sendOnClosed, hvars, cvars, rvars>>

\* ------------------------------------------------------- streaming handler
\* Where a handler goes when it leaves its loop: the deferred unsubscribe runs
\* on return and on panic alike.
ExitSkippingDefer(reason) == IF reason = "werr" THEN "done" ELSE "unsub"
ExitPc(reason) == "unsub"

\* liveReloadHandler: the headers, WriteHeader(200), then subscribe(): Lock,
\* make, insert, Unlock; the handler then defers unsubscribe.  Connections are
\* numbered in the order in which they subscribe; connection h owns channel h.
Subscribe(h) ==
    /\ ~exited
    /\ hpc[h] = "idle"
    /\ \A g \in Handlers : g < h => hpc[g] # "idle"
    /\ LockFree
    /\ channels' = channels \cup {h}
    /\ hch' = [hch EXCEPT ![h] = h]
    /\ hsince' = [hsince EXCEPT ![h] = Len(afterFuncs)]
    /\ hpc' = [hpc EXCEPT ![h] = "subscribed"]
    /\ UNCHANGED <<tvars, mvars, wvars, dvars, nvars, mu, closed, sendOnClosed,
                   hexit, reqDone, frames, cvars, rvars>>

\* The handler reaches its select and parks there.
HandlerSelect(h) ==
    /\ ~exited
    /\ hpc[h] = "subscribed"
    /\ hpc' = [hpc EXCEPT ![h] = "select"]
    /\ UNCHANGED <<tvars, mvars, wvars, dvars, nvars, bvars, hch, hsince, hexit, reqDone, frames, cvars, rvars>>

\* case <-r.Context().Done(): return
HandlerCtxDone(h) ==
    /\ ~exited
    /\ hpc[h] = "select"
    /\ reqDone[h]
    /\ hpc' = [hpc EXCEPT ![h] = ExitPc("ctx")]
    /\ hexit' = [hexit EXCEPT ![h] = "ctx"]
    /\ UNCHANGED <<tvars, mvars, wvars, dvars, nvars, bvars, hch, hsince, reqDone, frames, cvars, rvars>>

\* case <-ch: fmt.Fprint(w, msg) succeeded
HandlerWriteOk(h) ==
    /\ ~exited
    /\ hpc[h] = "write"
    /\ hpc' = [hpc EXCEPT ![h] = "flush"]
    /\ frames' = [frames EXCEPT ![h] = @ + 1]
    /\ UNCHANGED <<tvars, mvars, wvars, dvars, nvars, bvars, hch, hsince, hexit, reqDone, cvars, rvars>>

\* case <-ch: fmt.Fprint(w, msg) failed: return
HandlerWriteErr(h) ==
    /\ ~exited
    /\ hpc[h] = "write"
    /\ hpc' = [hpc EXCEPT ![h] = ExitPc("werr")]
    /\ hexit' = [hexit EXCEPT ![h] = "werr"]
    /\ UNCHANGED <<tvars, mvars, wvars, dvars, nvars, bvars, hch, hsince, reqDone, frames, cvars, rvars>>

\* flusher.Flush(), then back to the select
HandlerFlush(h) ==
    /\ ~exited
    /\ hpc[h] = "flush"
    /\ hpc' = [hpc EXCEPT ![h] = "select"]
    /\ UNCHANGED <<tvars, mvars, wvars, dvars, nvars, bvars, hch, hsince, hexit, reqDone, frames, cvars, rvars>>

\* A panic in the loop body (the write or the flush): deferred calls still run.
HandlerPanic(h) ==
    /\ ~exited
    /\ hpc[h] \in {"write", "flush"}
    /\ hpc' = [hpc EXCEPT ![h] = ExitPc("panic")]
    /\ hexit' = [hexit EXCEPT ![h] = "panic"]
    /\ UNCHANGED <<tvars, mvars, wvars, dvars, nvars, bvars, hch, hsince, reqDone, frames, cvars, rvars>>

\* unsubscribe(ch): b.mu.Lock(); delete(b.channels, ch)
UnsubscribeDelete(h) ==
    /\ ~exited
    /\ hpc[h] = "unsub"
    /\ LockFree
    /\ mu' = [mu EXCEPT !.writer = h]
    /\ channels' = Delete(channels, hch[h])
    /\ hpc' = [hpc EXCEPT ![h] = "unsub_close"]
    /\ UNCHANGED <<tvars, mvars, wvars, dvars, nvars, closed, sendOnClosed,
                   hch, hsince, hexit, reqDone, frames, cvars, rvars>>

\* unsubscribe(ch): close(ch), the deferred Unlock, and the handler returns
\* (withRequestCancel's deferred reqCancel() ends the request context).
UnsubscribeClose(h) ==
    /\ ~exited
    /\ hpc[h] = "unsub_close"
    /\ closed' = closed \cup {hch[h]}
    /\ mu' = [mu EXCEPT !.writer = 0]
    /\ hpc' = [hpc EXCEPT ![h] = "done"]
    /\ reqDone' = [reqDone EXCEPT ![h] = TRUE]
    /\ UNCHANGED <<tvars, mvars, wvars, dvars, nvars, channels, sendOnClosed,
                   hch, hsince, hexit, frames, cvars, rvars>>

Active(h) == hpc[h] \notin {"idle", "done"}

\* The client went away: the server cancels r.Context().
ClientDisconnect(h) ==
    /\ ~exited
    /\ Active(h)
    /\ ~reqDone[h]
    /\ reqDone' = [reqDone EXCEPT ![h] = TRUE]
    /\ UNCHANGED <<tvars, mvars, wvars, dvars, nvars, bvars, hpc, hch, hsince, hexit, frames, cvars, rvars>>

\* withRequestCancel: its goroutine sees ctx.Done() and calls reqCancel().
RequestCancel(h) ==
    /\ ~exited
    /\ Active(h)
    /\ cancelled
    /\ ~reqDone[h]
    /\ reqDone' = [reqDone EXCEPT ![h] = TRUE]
    /\ UNCHANGED <<tvars, mvars, wvars, dvars, nvars, bvars, hpc, hch, hsince, hexit, frames, cvars, rvars>>

\* ------------------------------------------------------- watcher goroutine
\* A return from the loop: the deferred function calls watcher.Close(), and
\* when that fails it prints the error and os.Exit(1) ends the process.
WatcherReturn(ok) ==
    IF ok
    THEN /\ wpc' = "done"
         /\ watcherOpen' = FALSE
         /\ UNCHANGED exited
    ELSE /\ wpc' = "exit"
         /\ exited' = TRUE
         /\ UNCHANGED watcherOpen

\* case <-ctx.Done(): return; the deferred watcher.Close() runs.
WatcherCtxDone(ok) ==
    /\ ~exited
    /\ wpc = "loop"
    /\ cancelled
    /\ WatcherReturn(ok)
    /\ UNCHANGED <<wlast, streamsOpen, fvars, tvars, cancelled, pendingAtCancel, dvars, nvars,
                   bvars, hvars, cvars, rvars>>

\* The backend is torn down: it closes watcher.Events and watcher.Errors.
BackendTearDown ==
    /\ ~exited
    /\ streamsOpen
    /\ streamsOpen' = FALSE
    /\ UNCHANGED <<wpc, watcherOpen, wlast, fvars, tvars, mvars, dvars, nvars, bvars, hvars,
                   cvars, rvars>>

\* case ev, ok := <-watcher.Events: if !ok { return }
WatcherEventsClosed(ok) ==
    /\ ~exited
    /\ wpc = "loop"
    /\ ~streamsOpen
    /\ WatcherReturn(ok)
    /\ UNCHANGED <<wlast, streamsOpen, fvars, tvars, cancelled, pendingAtCancel, dvars, nvars,
                   bvars, hvars, cvars, rvars>>

\* case err, ok := <-watcher.Errors: if !ok { return }
WatcherErrorsClosed(ok) ==
    /\ ~exited
    /\ wpc = "loop"
    /\ ~streamsOpen
    /\ WatcherReturn(ok)
    /\ UNCHANGED <<wlast, streamsOpen, fvars, tvars, cancelled, pendingAtCancel, dvars, nvars,
                   bvars, hvars, cvars, rvars>>

\* case ev, ok := <-watcher.Events: filter on the operation, then debounce.
WatcherEvent(op) ==
    /\ ~exited
    /\ wpc = "loop"
    /\ streamsOpen
    /\ IF op \cap trackedOp = {}
       THEN UNCHANGED dvars
       ELSE Call("reload")
    /\ wlast' = op
    /\ UNCHANGED <<tvars, mvars, wpc, watcherOpen, streamsOpen, fvars, nvars, bvars, hvars,
                   cvars, rvars>>

\* The initial walk: every directory the callback is handed and does not skip
\* is added to the watcher, and the goroutine enters its loop.
Walk ==
    /\ ~exited
    /\ wpc = "walk"
    /\ watched' = WalkDir(tree, Root)
    /\ wpc' = "loop"
    /\ UNCHANGED <<watcherOpen, wlast, streamsOpen, tree, tvars, mvars, dvars, nvars, bvars,
                   hvars, cvars, rvars>>

\* The walk or a watcher.Add failed: the error is printed and os.Exit(1) ends
\* the process.
WalkFail ==
    /\ ~exited
    /\ wpc = "walk"
    /\ exited' = TRUE
    /\ UNCHANGED <<cancelled, pendingAtCancel, tvars, wvars, dvars, nvars, bvars, hvars, cvars, rvars>>

\* Something happens to an entry of directory d of the tree.  The backend
\* reports what happens to the entries of a watched directory, and nothing
\* else; a reported event is received by the loop.
FsChange(d, op) ==
    /\ ~exited
    /\ wpc = "loop"
    /\ IsDir(tree, d)
    /\ IF d \in watched
       THEN WatcherEvent(op)
       ELSE UNCHANGED vars

\* Where the goroutine is after it printed a watcher error: at the next
\* iteration of its loop.
AfterErrorReturn == "done"
AfterError == "loop"

\* case err, ok := <-watcher.Errors: log and go on.
WatcherError ==
    /\ ~exited
    /\ wpc = "loop"
    /\ streamsOpen
    /\ wlast' = LoggedError
    /\ wpc' = AfterError
    /\ UNCHANGED <<watcherOpen, streamsOpen, fvars, tvars, mvars, dvars, nvars, bvars, hvars,
                   cvars, rvars>>

\* -------------------------------------------------------------------- main
\* <-stopC; cancel()
Cancel ==
    /\ ~exited
    /\ ~cancelled
    /\ cancelled' = TRUE
    /\ pendingAtCancel' = {i \in 1..Len(afterFuncs) :
                              afterFuncs[i].st = "pending" /\ now < afterFuncs[i].deadline}
    /\ UNCHANGED <<tvars, exited, wvars, dvars, nvars, bvars, hvars, cvars, rvars>>

\* srv.Shutdown returned (no connection is active any more) and main returns.
\* Nothing waits for the watcher goroutine or for a pending timer.
ProcessExit ==
    /\ ~exited
    /\ cancelled
    /\ \A h \in Handlers : ~Active(h)
    /\ exited' = TRUE
    /\ UNCHANGED <<tvars, cancelled, pendingAtCancel, wvars, dvars, nvars, bvars, hvars, cvars, rvars>>


\* ----------------------------------------------------------- withInjectReload
\* The connection's http.ResponseWriter.  WriteHeader(st): the first call
\* commits the status with the headers as they are then; a later call changes
\* nothing.  Write(b) and Flush() commit a 200 first when nothing was committed.
ConnWriteHeader(x, h, st) ==
    IF x.commits = 0
    THEN [x EXCEPT !.status = st, !.hdr = h, !.commits = 1]
    ELSE [x EXCEPT !.commits = @ + 1]
ConnWrite(x, h, b) ==
    LET c == IF x.commits = 0 THEN ConnWriteHeader(x, h, StatusOK) ELSE x
    IN  [c EXCEPT !.body = @ \o b]
ConnFlush(x, h) == IF x.commits = 0 THEN ConnWriteHeader(x, h, StatusOK) ELSE x

\* serverError(w, err): http.Error(w, body, 500) drops the Content-Length, sets
\* a plain Content-Type, calls WriteHeader(500) and writes the text (which
\* reaches the client when it is still there).
serverError(x, h, alive) ==
    LET eh == [h EXCEPT !.ct = PlainContentType, !.cl = <<>>]
        c == ConnWriteHeader(x, eh, StatusInternalServerError)
    IN  [hdr |-> eh, w |-> IF alive THEN ConnWrite(c, eh, ErrorText) ELSE c]

\* bufferedResponseWriter.Write(b): the buffer is reset, then b is written to it.
Write(b, x) ==
    [b EXCEPT !.status = IF @ = 0 THEN StatusOK ELSE @, !.buf = x]

\* A request reaches withInjectReload: bw := newBufferedResponseWriter(w), the
\* flush is deferred and next.ServeHTTP(bw, r) is entered.
ServeHTTP(rng, inj, chunks) ==
    /\ mpc = "idle"
    /\ mpc' = "headers"
    /\ req' = [range |-> rng, injection |-> inj]
    /\ plan' = chunks
    /\ bw' = [buf |-> <<>>, status |-> StatusOK]
    /\ UNCHANGED <<out, hdr, w, panicking, flushErr, pvars>>

\* The wrapped handler sets its headers: a Content-Type, and a Content-Length
\* that is absent, the length of the body it is about to write, or malformed.
NextSetHeaders(ct, clKind) ==
    /\ mpc = "headers"
    /\ mpc' = "body"
    /\ LET cl == CASE clKind = "none" -> <<>>
                   [] clKind = "exact" -> Itoa(Len(Concat(plan)))
                   [] clKind = "bad" -> Malformed
       IN  /\ hdr' = [hdr EXCEPT !.ct = ct, !.cl = cl]
           /\ out' = [out EXCEPT !.ct = ct, !.cl = cl]
    /\ UNCHANGED <<req, plan, bw, w, panicking, flushErr, pvars>>

\* The wrapped handler calls bw.WriteHeader(statusCode), before its body.
NextWriteHeader(st) ==
    /\ mpc = "body"
    /\ out.body = <<>>
    /\ bw.status = StatusOK
    /\ bw' = [bw EXCEPT !.status = st]
    /\ out' = [out EXCEPT !.status = st]
    /\ UNCHANGED <<mpc, req, plan, hdr, w, panicking, flushErr, pvars>>

\* The wrapped handler calls bw.Write with its next chunk.
NextWrite ==
    /\ mpc = "body"
    /\ plan # <<>>
    /\ bw' = Write(bw, Head(plan))
    /\ out' = [out EXCEPT !.body = @ \o Head(plan)]
    /\ plan' = Tail(plan)
    /\ UNCHANGED <<mpc, req, hdr, w, panicking, flushErr, pvars>>

\* The wrapped handler calls bw.Flush(): the Flush of the connection's writer.
NextFlush ==
    /\ mpc = "body"
    /\ w.commits = 0
    /\ w' = ConnFlush(w, hdr)
    /\ UNCHANGED <<mpc, req, plan, out, hdr, bw, panicking, flushErr, pvars>>

\* The wrapped handler panics: the rest of withInjectReload is skipped and its
\* deferred function runs while the panic unwinds.
NextPanic ==
    /\ mpc \in {"headers", "body"}
    /\ mpc' = "flush"
    /\ panicking' = TRUE
    /\ UNCHANGED <<req, plan, out, hdr, bw, w, flushErr, pvars>>

\* next.ServeHTTP returns.
NextReturn ==
    /\ mpc = "body"
    /\ plan = <<>>
    /\ mpc' = "returned"
    /\ UNCHANGED <<req, plan, out, hdr, bw, w, panicking, flushErr, pvars>>

\* The Range and Content-Type tests of withInjectReload: TRUE when the response
\* is left as it is.
Passthrough == req.range # <<>> \/ ~Contains(hdr.ct, HTMLContentType)

\* withInjectReload after next.ServeHTTP: pass through, or insert the snippet,
\* add its length to the Content-Length and write the result to bw; a
\* Content-Length that does not parse ends the process (os.Exit(1)).
Rewrite ==
    /\ mpc = "returned"
    /\ IF Passthrough
       THEN /\ mpc' = "flush"
            /\ UNCHANGED <<hdr, bw, exited>>
       ELSE LET htmlStr == Replace1(bw.buf, closeBodyTag, req.injection \o closeBodyTag)
                n == Atoi(hdr.cl)
            IN  IF hdr.cl # <<>> /\ ~n.ok
                THEN /\ mpc' = "exit"
                     /\ exited' = TRUE
                     /\ UNCHANGED <<hdr, bw>>
                ELSE /\ mpc' = "flush"
                     /\ hdr' = IF hdr.cl # <<>>
                               THEN [hdr EXCEPT !.cl = Itoa(n.n + Len(req.injection))]
                               ELSE hdr
                     /\ bw' = Write(bw, htmlStr)
                     /\ UNCHANGED exited
    /\ UNCHANGED <<req, plan, out, w, panicking, flushErr>>
    /\ UNCHANGED <<tvars, cancelled, pendingAtCancel, wvars, dvars, cvars, nvars, bvars, hvars>>

\* The deferred function of withInjectReload.  bw.bufferFlush(): WriteHeader(bw.status)
\* on the connection, then io.Copy drains the buffer to it (one Write when the
\* buffer is not empty); when the copy fails, serverError(w, err).
BufferFlush(ok) ==
    /\ mpc = "flush"
    /\ ok \/ bw.buf # <<>>
    /\ mpc' = IF panicking THEN "recover" ELSE "done"
    /\ LET c == ConnWriteHeader(w, hdr, bw.status)
           e == serverError(c, hdr, FALSE)
       IN  IF ok
           THEN /\ w' = IF bw.buf # <<>> THEN ConnWrite(c, hdr, bw.buf) ELSE c
                /\ UNCHANGED <<hdr, flushErr>>
           ELSE /\ w' = e.w
                /\ hdr' = e.hdr
                /\ flushErr' = TRUE
    /\ bw' = [bw EXCEPT !.buf = <<>>]
    /\ UNCHANGED <<req, plan, out, panicking, pvars>>

\* The deferred function of withRecoverPanic: recover(), Connection: close,
\* serverError(w, err).
RecoverPanic ==
    /\ mpc = "recover"
    /\ mpc' = "done"
    /\ LET e == serverError(w, [hdr EXCEPT !.conn = ConnectionClose], ~flushErr)
       IN  /\ w' = e.w
           /\ hdr' = e.hdr
    /\ UNCHANGED <<req, plan, out, bw, panicking, flushErr, pvars>>

\* ---------------------------------------------------------- specifications
HandlerStep(h) ==
    \/ Subscribe(h)
    \/ HandlerSelect(h)
    \/ HandlerCtxDone(h)
    \/ HandlerWriteOk(h)
    \/ HandlerWriteErr(h)
    \/ HandlerFlush(h)
    \/ HandlerPanic(h)
    \/ UnsubscribeDelete(h)
    \/ UnsubscribeClose(h)
    \/ ClientDisconnect(h)

NotifyStep(i) ==
    \/ NotifyRLock(i)
    \/ \E ch \in Handlers : NotifySend(i, ch)
    \/ NotifyRUnlock(i)

\* The whole pipeline.
Next ==
    \/ Tick
    \/ Cancel
    \/ ProcessExit
    \/ \E ok \in BOOLEAN : WatcherCtxDone(ok)
    \/ WatcherError
    \/ \E op \in PipeOps : WatcherEvent(op)
    \/ \E i \in 1..MaxCalls : TimerFire(i)
    \/ \E i \in 1..MaxCalls : NotifyStep(i)
    \/ \E h \in 1..PipeHandlers : HandlerStep(h)
    \/ \E h \in 1..PipeHandlers : RequestCancel(h)

Spec == Init /\ [][Next]_vars

\* The watcher goroutine and the debouncer alone.
DebounceNext ==
    \/ Tick
    \/ Cancel
    \/ \E ok \in BOOLEAN : WatcherCtxDone(ok)
    \/ WatcherError
    \/ \E op \in Ops : WatcherEvent(op)
    \/ \E i \in 1..MaxCalls : TimerFire(i)

DebounceSpec == Init /\ [][DebounceNext]_vars

\* The watcher goroutine in its loop, with a backend that may be torn down.
LoopNext ==
    \/ Tick
    \/ Cancel
    \/ BackendTearDown
    \/ \E ok \in BOOLEAN : WatcherCtxDone(ok)
    \/ \E ok \in BOOLEAN : WatcherEventsClosed(ok)
    \/ \E ok \in BOOLEAN : WatcherErrorsClosed(ok)
    \/ WatcherError
    \/ \E op \in Ops : WatcherEvent(op)
    \/ \E i \in 1..MaxCalls : TimerFire(i)

LoopSpec == Init /\ [][LoopNext]_vars

\* The debouncer alone, called by several goroutines with several keys.
CallersNext ==
    \/ Tick
    \/ \E c \in Callers, key \in Keys : CallEnter(c, key)
    \/ \E c \in Callers : CallLock(c) \/ CallStop(c) \/ CallInstall(c)
    \/ \E i \in 1..MaxCalls : TimerFire(i)

CallersSpec == Init /\ [][CallersNext]_vars

\* The broadcaster and the streaming handlers alone, while the process runs.
BroadcastNext ==
    \/ \E i \in 1..MaxNotify : NotifyCall(i)
    \/ \E i \in 1..MaxNotify : NotifyStep(i)
    \/ \E h \in 1..NumHandlers : HandlerStep(h)

BroadcastSpec == Init /\ [][BroadcastNext]_vars

\* The initial walk of the watcher goroutine and the events that follow it.
WalkNext ==
    \/ Walk
    \/ WalkFail
    \/ \E d \in Dirs(tree) \cup {Root}, op \in Ops : FsChange(d, op)

WalkSpec == WalkInit /\ [][WalkNext]_vars

\* The broadcaster and streaming handlers whose only way out is a failed
\* write, over several rounds of notify().
WriteFailNext ==
    \/ \E i \in 1..MaxRounds : NotifyRound(i)
    \/ \E i \in 1..MaxRounds : NotifyStep(i)
    \/ \E h \in 1..NumHandlers :
          \/ Subscribe(h)
          \/ HandlerSelect(h)
          \/ HandlerWriteOk(h)
          \/ HandlerWriteErr(h)
          \/ HandlerFlush(h)
          \/ UnsubscribeDelete(h)
          \/ UnsubscribeClose(h)

WriteFailSpec == Init /\ [][WriteFailNext]_vars

\* One request through the rewriting middleware.
RewriteNext ==
    \/ \E rng \in RangeValues, inj \in Injections, chunks \in Plans : ServeHTTP(rng, inj, chunks)
    \/ \E ct \in ContentTypes, clKind \in {"none", "exact", "bad"} : NextSetHeaders(ct, clKind)
    \/ \E st \in Statuses : NextWriteHeader(st)
    \/ NextWrite
    \/ NextReturn
    \/ NextFlush
    \/ NextPanic
    \/ Rewrite
    \/ \E ok \in BOOLEAN : BufferFlush(ok)
    \/ RecoverPanic

RewriteSpec == Init /\ [][RewriteNext]_vars

\* ------------------------------------------------------------------ claims
Registered == {"subscribed", "select", "write", "flush", "unsub"}
NumCalls == Len(afterFuncs)
\* Every call but the first came less than the delay after the one before it.
OneBurst == \A i \in 1..(NumCalls - 1) : afterFuncs[i + 1].at - afterFuncs[i].at < after

\* The Calls made after Call i on the same key, and the first of them.
LaterOnKey(i) == {j \in (i + 1)..NumCalls : afterFuncs[j].key = afterFuncs[i].key}
NextOnKey(i) == CHOOSE j \in LaterOnKey(i) : \A k \in LaterOnKey(i) : j <= k

\* C1: in a sequence of Calls on one key, an action that is followed by another
\* Call less than the delay later never runs; the last action is never
\* cancelled, stays the key's timer, and when it has run it ran no earlier than
\* the delay after its Call.
C1_DebounceCoalescing ==
    \A i \in 1..NumCalls :
        LET t == afterFuncs[i] IN
        /\ (LaterOnKey(i) # {} /\ afterFuncs[NextOnKey(i)].at - t.at < after)
               => t.st = "stopped"
        /\ t.st = "fired" => t.ranAt >= t.at + after
        /\ LaterOnKey(i) = {} => t.st \in {"pending", "fired"} /\ timers[t.key] = i

\* A chain of three Calls, not all at the same instant, whose last action ran.
C1_Witness ==
    /\ NumCalls = 3
    /\ OneBurst
    /\ afterFuncs[3].at > afterFuncs[1].at
    /\ afterFuncs[3].st = "fired"

\* C2: every send that notify() attempts on a registered, open channel reaches
\* that channel's subscriber, wherever its handler is in its loop (unless it
\* is still busy with a notification it received and has not written yet).
C2_FanOut ==
    [][\A i \in NotifyIds, ch \in Handlers :
          (NotifySend(i, ch) /\ ch \notin closed /\ hpc[ch] # "write")
              => hpc'[ch] = "write"]_vars

\* C3: once unsubscribe(ch) has returned, ch is closed and out of the registry,
\* no notify() has ch left to visit, and no send on a closed channel happens.
C3_UnsubscribeSafety ==
    /\ ~sendOnClosed
    /\ \A ch \in closed : ch \notin channels /\ \A i \in NotifyIds : ch \notin nrem[i]
    /\ \A h \in Handlers : hpc[h] = "done" => hch[h] \in closed

\* One unsubscribe has returned, and another is called while a notify() in
\* its loop still has that channel to visit.
C3_Witness ==
    \E g, h \in Handlers, i \in NotifyIds :
        /\ hpc[g] = "done" /\ hch[g] \in closed
        /\ hpc[h] = "unsub" /\ npc[i] = "iter" /\ hch[h] \in nrem[i]

\* C6: a timer that was pending when the cancellation fired (its event came
\* less than the delay before) never runs its action.
C6_NoDanglingAction ==
    \A i \in pendingAtCancel : afterFuncs[i].st # "fired"

\* C7: once the cancellation fired the process does not end before the watcher
\* loop has exited and closed its watcher and every handler has unsubscribed.
C7_CancellationPropagation ==
    exited => /\ wpc = "done"
              /\ ~watcherOpen
              /\ channels = {}

\* C8: the registry holds exactly the channels of the handlers between their
\* subscribe and their unsubscribe, and a handler that ended, by whatever
\* path, has unsubscribed.
C8_HandlerCleanup ==
    /\ channels = {hch[h] : h \in {g \in Handlers : hpc[g] \in Registered}}
    /\ \A h \in Handlers :
          hpc[h] = "done" => /\ hexit[h] \in {"ctx", "werr", "panic"}
                             /\ hch[h] \notin channels
                             /\ hch[h] \in closed

\* Two handlers have ended, one on a failed write and one on a panic.
C8_Witness ==
    \E g, h \in Handlers :
        /\ hpc[g] = "done" /\ hexit[g] = "werr"
        /\ hpc[h] = "done" /\ hexit[h] = "panic"

\* C9: after one burst of tracked events (each less than the delay after the
\* one before) whose notify() has completed, every connection that was open
\* before the burst and is still open and idle has been written exactly one
\* frame.
C9_BurstOneFrame ==
    \A h \in Handlers :
        ( /\ NumCalls >= 1
          /\ OneBurst
          /\ afterFuncs[NumCalls].st = "fired"
          /\ npc[NumCalls] = "done"
          /\ hch[h] # 0 /\ hsince[h] = 0
          /\ hpc[h] \in {"subscribed", "select"} )
        => frames[h] = 1

\* C10: a notify() in its loop can always take its next step, whatever the
\* subscribers are doing; and while a goroutine is waiting for or holding the
\* registry lock, one of them can move.
LockStep ==
    \/ \E i \in NotifyIds : NotifyStep(i)
    \/ \E h \in Handlers : UnsubscribeDelete(h) \/ UnsubscribeClose(h)
C10_NotifyNeverBlocks ==
    ~exited =>
        /\ \A i \in NotifyIds : npc[i] = "iter" => ENABLED NotifyStep(i)
        /\ \A i \in NotifyIds : npc[i] = "done" => nrem[i] = {}
        /\ ( \/ \E i \in NotifyIds : npc[i] \in {"start", "iter"}
             \/ \E h \in Handlers : hpc[h] \in {"unsub", "unsub_close"} )
           => ENABLED LockStep

\* A notify() has been through both registered channels: one subscriber was
\* not receiving and the other got the notification.
C10_Witness ==
    \E i \in NotifyIds, g, h \in Handlers :
        /\ npc[i] = "iter" /\ nrem[i] = {}
        /\ hpc[g] = "subscribed"
        /\ hpc[h] = "write"

\* The request is over; and it is over with no panic and no failed copy, its
\* response sent.
Done == mpc = "done"
Sent == Done /\ ~panicking /\ ~flushErr
DeclaredExact == out.cl = Itoa(Len(out.body))

\* C4: with a Range header on the request, or a Content-Type that is not HTML,
\* the client is sent the status, the Content-Length and the body the wrapped
\* handler produced, however many Write calls it made.
C4_RewritingExclusions ==
    (Sent /\ (req.range # <<>> \/ ~Contains(hdr.ct, HTMLContentType)))
        => /\ w.status = out.status
           /\ w.hdr.cl = out.cl
           /\ w.body = out.body

\* C5: a non-Range HTML response whose body holds one closing body tag is sent
\* with the snippet inserted right before that tag, its length grown by the
\* snippet's, and a declared Content-Length of L sent as L+K.
C5_RewritingCorrectness ==
    ( /\ Sent
      /\ req.range = <<>>
      /\ Contains(hdr.ct, HTMLContentType)
      /\ Count(out.body, closeBodyTag) = 1
      /\ out.cl = <<>> \/ DeclaredExact )
    => LET L == Len(out.body)
           K == Len(req.injection)
           at == Index(out.body, closeBodyTag)
       IN  /\ Len(w.body) = L + K
           /\ w.body = SubSeq(out.body, 1, at - 1) \o req.injection
                          \o SubSeq(out.body, at, L)
           /\ DeclaredExact => w.hdr.cl = Itoa(L + K)

\* The operation kinds that count as a change, as the contract lists them.
TrackedKinds == {"Create", "Write", "Remove", "Rename"}

\* C11: an event with none of the operations create, write, remove, rename
\* leaves the debouncer and every notify() as they were; an event with at
\* least one of them makes one Call with the key "reload", which installs the
\* key's new pending timer; and a notify() only ever starts from a timer that
\* such a Call installed.
C11_OpFiltering ==
    /\ [](\A i \in NotifyIds : npc[i] # "none" => (i <= NumCalls /\ afterFuncs[i].st = "fired"))
    /\ [][\A op \in Ops :
             WatcherEvent(op) =>
                 IF op \cap TrackedKinds = {}
                 THEN UNCHANGED <<dvars, nvars>>
                 ELSE /\ Len(afterFuncs') = NumCalls + 1
                      /\ afterFuncs'[NumCalls + 1].key = "reload"
                      /\ afterFuncs'[NumCalls + 1].st = "pending"
                      /\ timers'["reload"] = NumCalls + 1]_vars

\* A tracked event made its Call and the event after it, a pure chmod, was
\* ignored: the timer of the first is still the pending one.
C11_Witness ==
    /\ wlast = {"Chmod"}
    /\ NumCalls = 1
    /\ timers["reload"] = 1
    /\ afterFuncs[1].st = "pending"

\* The names the contract lists, and what lies behind one of them.
IgnoredNames == {".git", ".idea", "node_modules"}
Clear(p) == \A i \in 1..Len(p) : p[i] \notin IgnoredNames
Walked == wpc = "loop"

MalformedLength ==
    /\ mpc \notin {"idle", "headers", "body", "returned"}
    /\ ~panicking
    /\ req.range = <<>>
    /\ Contains(out.ct, HTMLContentType)
    /\ out.cl # <<>> /\ ~Atoi(out.cl).ok

\* C13: a Content-Length that is not an integer, on a response without Range
\* and with an HTML Content-Type, leaves the process running, and the request
\* is answered with status 500.
C13_MalformedLengthIs500 ==
    MalformedLength => /\ ~exited
                       /\ mpc # "exit"
                       /\ Done => w.status = StatusInternalServerError

\* C14: when the wrapped handler panicked, the response the client received
\* has status 500 and carries Connection: close.
C14_PanicIs500 ==
    (Done /\ panicking /\ ~flushErr)
        => /\ w.status = StatusInternalServerError
           /\ w.hdr.conn = ConnectionClose

\* C18: while the wrapped handler is writing, and when it has returned, the
\* buffer holds every chunk it wrote, in order, and the connection has been
\* sent no byte of them.
C18_BufferCapture ==
    (mpc \in {"body", "returned"})
        => /\ bw.buf = out.body
           /\ w.body = <<>>

\* C19: a response that was sent with a Content-Length, the wrapped handler
\* having declared none or the length of its body, declares the number of
\* bytes the client was sent.
C19_ContentLengthConsistency ==
    (Sent /\ (out.cl = <<>> \/ DeclaredExact) /\ w.hdr.cl # <<>>)
        => w.hdr.cl = Itoa(Len(w.body))

\* C20: nothing reaches the connection before the wrapped handler has
\* returned; when the request is over the status was committed by exactly one
\* WriteHeader, with the last status the wrapped handler set; and after the
\* commit no header changes.
C20_DeferredSingleCommit ==
    /\ mpc \in {"idle", "headers", "body"} => (w.commits = 0 /\ w.body = <<>>)
    /\ Done => (w.commits = 1 /\ w.status = out.status)
    /\ w.commits >= 1 => hdr = w.hdr

\* Handler h left its loop on a failed write.
WriteFailed(h) == hexit[h] = "werr"
Others(h) == Handlers \ {h}

\* C15: a failed frame write takes its handler straight to its unsubscribe,
\* with no frame counted and no other handler touched; that unsubscribe takes
\* out and closes the handler's own channel and nothing else; every other
\* handler that has not ended stays registered with an open channel, and a
\* later notify() that finds it receiving still delivers to it.
C15_WriteFailureIsolation ==
    /\ [](\A h \in Handlers : WriteFailed(h) =>
             \A g \in Others(h) :
                 (hexit[g] = "none" /\ hpc[g] \in Registered)
                     => (hch[g] \in channels /\ hch[g] \notin closed))
    /\ [][\A h \in Handlers :
             HandlerWriteErr(h) =>
                 /\ hpc'[h] = "unsub"
                 /\ frames' = frames
                 /\ \A g \in Others(h) : hpc'[g] = hpc[g]
                 /\ channels' = channels /\ closed' = closed]_vars
    /\ [][\A h \in Handlers :
             (WriteFailed(h) /\ (UnsubscribeDelete(h) \/ UnsubscribeClose(h))) =>
                 /\ channels \ channels' \subseteq {hch[h]}
                 /\ closed' \ closed \subseteq {hch[h]}
                 /\ \A g \in Others(h) : hpc'[g] = hpc[g]]_vars
    /\ [][\A i \in NotifyIds, g \in Handlers :
             ( /\ \E h \in Others(g) : WriteFailed(h)
               /\ NotifySend(i, g)
               /\ hpc[g] = "select" )
             => hpc'[g] = "write"]_vars

\* One handler has ended on a failed write; the other has written the frame
\* of the first round and has now received the notification of the second.
C15_Witness ==
    \E g, h \in Handlers :
        /\ hpc[h] = "done" /\ WriteFailed(h)
        /\ npc[1] = "done" /\ npc[2] = "iter"
        /\ frames[g] = 1 /\ hpc[g] = "write"

\* C16: a step of a Call with one key leaves every timer of another key, and
\* the table entry of every other key, as they were; a timer is stopped only
\* by a later Call with its own key (made, or about to install its timer);
\* and the timer of a key's last
\* Call is due the delay after that Call and runs no earlier, whatever Calls
\* with other keys are made meanwhile, by whatever goroutine.
C16_DebounceIndependence ==
    /\ [](\A i \in 1..NumCalls :
             LET t == afterFuncs[i] IN
             /\ t.st = "stopped" =>
                    \/ LaterOnKey(i) # {}
                    \/ \E c \in Callers : cpc[c] = "install" /\ ckey[c] = t.key
             /\ LaterOnKey(i) = {} => timers[t.key] = i
             /\ t.deadline = t.at + after
             /\ t.st = "fired" => t.ranAt >= t.at + after)
    /\ [][\A c \in Callers :
             (CallStop(c) \/ CallInstall(c)) =>
                 /\ \A i \in 1..NumCalls :
                        afterFuncs[i].key # ckey[c] => afterFuncs'[i] = afterFuncs[i]
                 /\ \A k \in Keys \ {ckey[c]} : timers'[k] = timers[k]]_vars

\* Two Calls with different keys, made less than the delay apart, have both
\* run their actions, and a third Call has stopped no timer of theirs.
C16_Witness ==
    \E i, j \in 1..NumCalls :
        /\ i < j
        /\ afterFuncs[i].key # afterFuncs[j].key
        /\ afterFuncs[j].at - afterFuncs[i].at < after
        /\ afterFuncs[i].st = "fired" /\ afterFuncs[j].st = "fired"
        /\ \E c \in Callers : cpc[c] = "install"

\* The streaming handlers that own channel ch: it is their local ch and they
\* have subscribed and not returned.
Owners(ch) == {h \in Handlers : hch[h] = ch /\ Active(h)}

\* C17: every channel in the registry is open and is the channel of exactly
\* one handler that has subscribed and not returned; no closed channel is in
\* the registry; and an unsubscribe about to close its channel has already
\* taken it out of the registry, a channel being closed only by the last step
\* of its owner's unsubscribe.
C17_RegistryInvariant ==
    /\ \A ch \in channels : ch \notin closed /\ Cardinality(Owners(ch)) = 1
    /\ closed \cap channels = {}
    /\ \A h \in Handlers :
          /\ hpc[h] = "unsub_close" => (hch[h] \notin channels /\ hch[h] \notin closed)
          /\ hch[h] \in closed => hpc[h] = "done"

\* One handler is between the delete and the close of its unsubscribe, its
\* channel out of the registry and still open, while another is registered
\* and writing a frame.
C17_Witness ==
    \E g, h \in Handlers :
        /\ hpc[g] = "unsub_close" /\ hch[g] \notin channels /\ hch[g] \notin closed
        /\ hpc[h] = "write" /\ hch[h] \in channels

\* The timers of key k that have neither run nor been stopped.
PendingOn(k) == {i \in 1..NumCalls : afterFuncs[i].key = k /\ afterFuncs[i].st = "pending"}

\* C21: no key ever has more than one timer that has neither run nor been
\* stopped, however the Calls of several goroutines on one key interleave;
\* the only such timer is the one the table holds; and a Call that is about
\* to install its timer has stopped the one the table held for its key.
C21_OnePendingTimerPerKey ==
    /\ \A k \in Keys :
          /\ Cardinality(PendingOn(k)) <= 1
          /\ PendingOn(k) \subseteq {timers[k]}
    /\ \A c \in Callers :
          cpc[c] = "install" => PendingOn(ckey[c]) = {}
    /\ Cardinality({c \in Callers : cpc[c] \in {"stop", "install"}}) <= 1

\* Two goroutines are in Call with the same key at the same time: one has
\* stopped the key's timer, installed a tick earlier and still pending, and
\* is about to install its own; the other waits for the mutex.
C21_Witness ==
    \E c, b \in Callers :
        /\ cpc[c] = "install" /\ cpc[b] = "lock" /\ ckey[c] = ckey[b]
        /\ NumCalls = 1
        /\ afterFuncs[1].key = ckey[c]
        /\ afterFuncs[1].st = "stopped"
        /\ afterFuncs[1].at < now

\* C22: a watcher error is logged and nothing else: it leaves the debouncer,
\* every notify() and the watcher as they were and the loop running; the loop
\* is left only when the cancellation fired or the event and error streams
\* are closed; and whenever the loop has been left, watcher.Close() was called:
\* the watcher is closed, or the failure of Close has ended the process.
C22_LoopTermination ==
    /\ [](wpc = "done" => ~watcherOpen)
    /\ [](wpc = "exit" => exited)
    /\ [](wpc = "loop" => watcherOpen)
    /\ [][WatcherError =>
             /\ UNCHANGED <<dvars, nvars, watcherOpen, exited>>
             /\ wpc' = "loop"]_vars
    /\ [][(wpc = "loop" /\ wpc' # "loop") => (cancelled \/ ~streamsOpen)]_vars

\* The loop logged an error and went on; then the backend was torn down, with
\* no cancellation, and the loop returned and closed the watcher.  No Call
\* was ever made.
C22_Witness ==
    /\ wlast = LoggedError
    /\ ~cancelled /\ ~streamsOpen
    /\ wpc = "done" /\ ~watcherOpen
    /\ NumCalls = 0

====
